---- MODULE Spec2Model ----
(***************************************************************************)
(* Model of src/src/balancer/OceanPool.ts (class OceanPool): the trading   *)
(* and liquidity operations, their guards and the calls they issue to the  *)
(* base class Pool (approve, swapExactAmountOut, swapExactAmountIn,        *)
(* joinswapExternAmountIn, exitswapExternAmountOut, exitPool).             *)
(*                                                                         *)
(* Amounts.  The code threads amounts as decimal strings of at most 18     *)
(* decimals and the ledger holds raw integer units (wei).  A decimal       *)
(* string is represented here by the integer number of raw units it        *)
(* denotes ("0.000000000000000003" is 3), so toWei and fromWei map a       *)
(* string to the integer it denotes and back.  A JavaScript number that is *)
(* not a whole number of raw units (reserve / 3, shares * 0.9999) is kept  *)
(* as an exact fraction <<numerator, denominator>> of raw units.           *)
(* parseFloat of null or undefined is NaN, and every comparison with NaN   *)
(* is false.  On the modelled range (far below 2^52 raw units) parseFloat  *)
(* is injective and monotone, so comparing parseFloat of two strings is    *)
(* comparing the raw integers; the rounding of a double is not modelled.   *)
(***************************************************************************)
EXTENDS Integers, Sequences, FiniteSets, TLC

\* ------------------------------------------------------------------------
\* Bounds of the model
\* ------------------------------------------------------------------------
MaxReserve == 9
MaxShares == 2
MaxAmount == 3
MaxLimit == 2
MaxLedgerChanges == 1
MaxDispense == 2
MaxMathReserve == 12
MaxGas == 3

\* a zero reserve, a reserve of a few raw units, and reserves whose ceilings
\* are 0 and positive
ReserveValues == {r \in 0..MaxReserve : r % 3 = 0}
ShareValues == 0..MaxShares
Amounts == -1..MaxAmount
Limits == 0..MaxLimit

\* ------------------------------------------------------------------------
\* Values
\* ------------------------------------------------------------------------
DT == "dt"
DT2 == "dt2"
OCEAN == "ocean"
NULL == "null"
Tokens == {DT, OCEAN}

\* parseFloat(null): not a number; outside every modelled amount
NaN == -1000

POOL_MAX_AMOUNT_IN_LIMIT_DEN == 4
POOL_MAX_AMOUNT_OUT_LIMIT_DEN == 4
MAX_BUY_DEN == 3
EPS_NUM == 9999
EPS_DEN == 10000

\* shares held by the other holders of the pool; weights, fee of the pool
OtherShares == 2
DenormWeight == 5
FeeDen == 100
SwapFee == 0

VARIABLES
    reserve,          \* ledger: reserve of each token of the pool, raw units
    shares,           \* ledger: the caller's pool-share balance, raw units
    tokens,           \* ledger: getCurrentTokens(poolAddress)
    changes,          \* number of ledger changes by other callers so far
    weight,           \* ledger: denormalized weight of each token of the pool
    swapFee,          \* ledger: swap fee of the pool, in 1/FeeDen
    oceanAddress,     \* this.oceanAddress
    dtAddress,        \* this.dtAddress
    op,               \* the operation in flight, "idle" when none
    pc,               \* position of the operation
    amount,           \* first amount argument of the operation
    limit,            \* second amount argument (max in / min out / max shares)
    dtAddr,           \* local const dtAddress
    balance,          \* reserve read for the ceiling check
    maxAmount,        \* local maxAmount (liquidity ceiling)
    quote,            \* local calcInGivenOut / calcOutGivenIn
    usershares,       \* local usershares
    sharesRequired,   \* local sharesRequired
    adjusted,         \* the share argument after the "Balancer bug fix" lines
    calls,            \* calls issued to the Pool base class by the operation
    result,           \* "pending", "null" (rejection), "receipt"; for
                      \* isDispensable "true", "false" or "throw"
    createFee,        \* create: argument fee, in 1/FeeDen
    dtWeight,         \* create: argument dtWeight
    progress,         \* create: the steps passed to observer.next
    status,           \* isDispensable: local const status
    userBalance,      \* isDispensable: local const userBalance
    getters,          \* concurrent getDTAddress calls on the instance
    tokenIn,          \* calcInGivenOut / calcOutGivenIn: argument tokenInAddress
    tokenOut,         \* calcInGivenOut / calcOutGivenIn: argument tokenOutAddress
    estimateGas,      \* Dispenser transactions: argument estimateGas
    estGas,           \* Dispenser transactions: local const estGas
    tokensReceived,   \* getTokensRemovedforPoolShares: its locals and result
    registry,         \* ledger: the BPoolRegistered events of the factory and
                      \* the share balance of each account in each pool
    sharesByAddress   \* getPoolSharesByAddress: its locals and result

poolVars == <<weight, swapFee, registry>>
ledgerVars == <<reserve, shares, tokens, changes, poolVars>>
auxVars == <<getters, tokenIn, tokenOut, estimateGas, estGas, tokensReceived,
             sharesByAddress>>
extVars == <<createFee, dtWeight, progress, status, userBalance, auxVars>>
instVars == <<oceanAddress, dtAddress>>
argVars == <<op, amount, limit>>
localVars == <<dtAddr, balance, maxAmount, quote, usershares, sharesRequired,
               adjusted>>
vars == <<reserve, shares, tokens, changes, oceanAddress, dtAddress, op, pc,
          amount, limit, dtAddr, balance, maxAmount, quote, usershares,
          sharesRequired, adjusted, calls, result, createFee, dtWeight,
          progress,
          status, userBalance, getters, weight, swapFee, tokenIn, tokenOut,
          estimateGas, estGas, tokensReceived, registry, sharesByAddress>>

\* ------------------------------------------------------------------------
\* Numbers
\* ------------------------------------------------------------------------
\* JavaScript comparisons after parseFloat: false as soon as one side is NaN
GT(a, b) == a # NaN /\ b # NaN /\ a > b
LT(a, b) == a # NaN /\ b # NaN /\ a < b
EQ(a, b) == a # NaN /\ b # NaN /\ a = b

\* a whole number of raw units as a fraction
Dec(n) == <<n, 1>>
RatLE(a, b) == a[1] * b[2] <= b[1] * a[2]
RatEQ(a, b) == a[1] * b[2] = b[1] * a[2]

toWei(s) == s
fromWei(n) == n

CeilDiv(a, b) == (a + b - 1) \div b

RECURSIVE Pow(_, _)
Pow(b, e) == IF e <= 0 THEN 1 ELSE b * Pow(b, e - 1)

RECURSIVE Gcd(_, _)
Gcd(a, b) == IF b = 0 THEN a ELSE Gcd(b, a % b)

\* floor of the q-th root of x, x >= 0
Root(x, q) == CHOOSE y \in 0..x : Pow(y, q) <= x /\ Pow(y + 1, q) > x

\* fractions <<n, d>> with d > 0; <<NaN, 1>> is NaN
FGT(a, b) == a[1] # NaN /\ b[1] # NaN /\ a[1] * b[2] > b[1] * a[2]

\* ------------------------------------------------------------------------
\* Ledger reads (Pool base class) and the pricing formulas behind them
\* ------------------------------------------------------------------------
getCurrentTokens == tokens

getReserve(t) == IF t \in Tokens THEN reserve[t] ELSE NaN

getDenormalizedWeight(t) == IF t \in Tokens THEN weight[t] ELSE NaN

getTotalDenormalizedWeight == weight[DT] + weight[OCEAN]

getSwapFee == swapFee

sharesBalance == shares

getPoolSharesTotalSupply == shares + OtherShares

\* Pool.calcInGivenOut: input required for an output of aOut, rounded up;
\* no quote (null) outside the formula's domain
PoolCalcInGivenOut(rIn, wIn, rOut, wOut, aOut, fee) ==
    IF \/ NaN \in {rIn, wIn, rOut, wOut, aOut, fee}
       \/ rIn <= 0 \/ rOut <= 0 \/ wIn <= 0 \/ wOut <= 0
       \/ aOut < 0 \/ aOut >= rOut
    THEN NaN
    ELSE LET p == wOut \div Gcd(wOut, wIn)
             q == wIn \div Gcd(wOut, wIn)
             e == CeilDiv(p, q)
             hi == Pow(rOut, e)
             lo == Pow(rOut - aOut, e)
             whole == CeilDiv(rIn * (hi - lo) * FeeDen, lo * (FeeDen - fee))
             Enough(n) == Pow(n * (FeeDen - fee) + rIn * FeeDen, q) * Pow(rOut - aOut, p)
                              >= Pow(rIn * FeeDen, q) * Pow(rOut, p)
         IN  IF q = 1 THEN whole
             ELSE CHOOSE n \in 0..whole : Enough(n) /\ (n = 0 \/ ~Enough(n - 1))

\* Pool.calcOutGivenIn: output obtained for an input of aIn, rounded down
PoolCalcOutGivenIn(rIn, wIn, rOut, wOut, aIn, fee) ==
    IF \/ NaN \in {rIn, wIn, rOut, wOut, aIn, fee}
       \/ rIn <= 0 \/ rOut <= 0 \/ wIn <= 0 \/ wOut <= 0
       \/ aIn < 0
    THEN NaN
    ELSE LET p == wIn \div Gcd(wIn, wOut)
             q == wOut \div Gcd(wIn, wOut)
             net == aIn * (FeeDen - fee)
             hi == Pow(rIn * FeeDen + net, p)
             lo == Pow(rIn * FeeDen, p)
             Covered(m) == Pow(rOut - m, q) * hi >= Pow(rOut, q) * lo
         IN  IF q = 1 THEN (rOut * (hi - lo)) \div hi
             ELSE CHOOSE m \in 0..rOut : Covered(m) /\ (m = rOut \/ ~Covered(m + 1))

\* Pool.calcPoolInGivenSingleOut: shares required to withdraw aOut of one
\* asset, rounded up
PoolCalcPoolInGivenSingleOut(r, w, supply, totalW, aOut, fee) ==
    IF \/ NaN \in {r, w, supply, totalW, aOut, fee}
       \/ r <= 0 \/ w <= 0 \/ supply <= 0 \/ totalW < w
       \/ aOut < 0 \/ aOut >= r
    THEN NaN
    ELSE LET q == totalW \div w
             before == CeilDiv(aOut * FeeDen * q, FeeDen * q - (q - 1) * fee)
         IN  IF before >= r THEN NaN
             ELSE supply - Root((Pow(supply, q) * (r - before)) \div r, q)

\* ------------------------------------------------------------------------
\* OceanPool: read-only helpers
\* ------------------------------------------------------------------------
\* the loop of getDTAddress: the last token different from oceanAddress
LastOther(toks, ocean) ==
    LET idx == {i \in 1..Len(toks) : toks[i] # ocean}
    IN  IF idx = {} THEN NULL
        ELSE toks[CHOOSE i \in idx : \A j \in idx : j <= i]

getDTAddress == LastOther(getCurrentTokens, oceanAddress)

\* String(parseFloat(balance) / 3), as a fraction of raw units
getMaxBuyQuantity(bal) == IF bal = NaN THEN <<NaN, 1>> ELSE <<bal, MAX_BUY_DEN>>

getMaxAddLiquidity_noMinusOne(bal) ==
    IF GT(bal, 0)
    THEN fromWei(toWei(bal) \div POOL_MAX_AMOUNT_IN_LIMIT_DEN)
    ELSE 0

getMaxAddLiquidity(bal) ==
    IF GT(bal, 0)
    THEN fromWei((toWei(bal) \div POOL_MAX_AMOUNT_IN_LIMIT_DEN) - 1)
    ELSE 0

getMaxRemoveLiquidity(bal) ==
    IF GT(bal, 0)
    THEN fromWei((toWei(bal) \div POOL_MAX_AMOUNT_OUT_LIMIT_DEN) - 1)
    ELSE 0

calcInGivenOut_swapped(tIn, tOut, aOut) ==
    PoolCalcInGivenOut(getReserve(tOut), getDenormalizedWeight(tOut),
                       getReserve(tIn), getDenormalizedWeight(tIn),
                       aOut, getSwapFee)

calcInGivenOut_noFee(tIn, tOut, aOut) ==
    PoolCalcInGivenOut(getReserve(tIn), getDenormalizedWeight(tIn),
                       getReserve(tOut), getDenormalizedWeight(tOut),
                       aOut, 0)

calcInGivenOut(tIn, tOut, aOut) ==
    PoolCalcInGivenOut(getReserve(tIn), getDenormalizedWeight(tIn),
                       getReserve(tOut), getDenormalizedWeight(tOut),
                       aOut, getSwapFee)

calcOutGivenIn_swapped(tIn, tOut, aIn) ==
    PoolCalcOutGivenIn(getReserve(tOut), getDenormalizedWeight(tOut),
                       getReserve(tIn), getDenormalizedWeight(tIn),
                       aIn, getSwapFee)

calcOutGivenIn_plusOne(tIn, tOut, aIn) ==
    PoolCalcOutGivenIn(getReserve(tIn), getDenormalizedWeight(tIn),
                       getReserve(tOut), getDenormalizedWeight(tOut),
                       aIn + 1, getSwapFee)

calcOutGivenIn(tIn, tOut, aIn) ==
    PoolCalcOutGivenIn(getReserve(tIn), getDenormalizedWeight(tIn),
                       getReserve(tOut), getDenormalizedWeight(tOut),
                       aIn, getSwapFee)

calcPoolInGivenSingleOut(tOut, aOut) ==
    PoolCalcPoolInGivenSingleOut(getReserve(tOut), getDenormalizedWeight(tOut),
                                 getPoolSharesTotalSupply,
                                 getTotalDenormalizedWeight, aOut, getSwapFee)

getOceanNeeded(dtRequired) == calcInGivenOut(oceanAddress, getDTAddress, dtRequired)

getOceanReceived(dtSold) == calcOutGivenIn(getDTAddress, oceanAddress, dtSold)

getPoolSharesRequiredToRemoveDT(dtAmount) ==
    calcPoolInGivenSingleOut(getDTAddress, dtAmount)

getPoolSharesRequiredToRemoveOcean(oceanAmount) ==
    calcPoolInGivenSingleOut(oceanAddress, oceanAmount)

\* ------------------------------------------------------------------------
\* OceanPool: the guards of the mutating operations
\* ------------------------------------------------------------------------
\* buyDT 549-551, sellDT 604-607
ExceedsMaxBuyQuantity(wanted, bal) == FGT(Dec(wanted), getMaxBuyQuantity(bal))

\* buyDT 557
NotEnoughOcean_offByOne(needed, maxOceanAmount) == GT(needed, maxOceanAmount + 1)
NotEnoughOcean(needed, maxOceanAmount) == GT(needed, maxOceanAmount)

\* sellDT 613
NotEnoughDatatokens_offByOne(received, oceanAmountWanted) ==
    LT(received + 1, oceanAmountWanted)
NotEnoughDatatokens(received, oceanAmountWanted) == LT(received, oceanAmountWanted)

\* addDTLiquidity 652, addOceanLiquidity 735
TooMuchReserveToAdd_offByOne(amt, max) == GT(amt, max + 1)
TooMuchReserveToAdd(amt, max) == GT(amt, max)

\* removeDTLiquidity 691, removeOceanLiquidity 777
TooMuchReserveToRemove_offByOne(amt, max) == GT(amt, max + 1)
TooMuchReserveToRemove(amt, max) == GT(amt, max)

\* removeDTLiquidity 696, removeOceanLiquidity 782
NotEnoughPoolShares_offByOne(held, maximumPoolShares) == LT(held + 1, maximumPoolShares)
NotEnoughPoolShares(held, maximumPoolShares) == LT(held, maximumPoolShares)

\* removeDTLiquidity 701, removeOceanLiquidity 790
SharesBelowRequired(maximumPoolShares, required) == LT(maximumPoolShares, required)

\* removeDTLiquidity 706-707, removeOceanLiquidity 795-796
BalancerBugFixSingle(maximumPoolShares, required) ==
    IF LT(maximumPoolShares, required)
    THEN <<maximumPoolShares * EPS_NUM, EPS_DEN>>
    ELSE Dec(maximumPoolShares)

\* removePoolLiquidity 824
NotEnoughSharesToExit_offByOne(held, poolShares) == LT(held + 1, poolShares)
NotEnoughSharesToExit(held, poolShares) == LT(held, poolShares)

\* removePoolLiquidity 829-830
BalancerBugFixAll_always(held, poolShares) == <<poolShares * EPS_NUM, EPS_DEN>>
BalancerBugFixAll_never(held, poolShares) == Dec(poolShares)
BalancerBugFixAll(held, poolShares) ==
    IF EQ(held, poolShares)
    THEN <<poolShares * EPS_NUM, EPS_DEN>>
    ELSE Dec(poolShares)

\* buyDT 568, sellDT 623, addDTLiquidity 662, addOceanLiquidity 745
ApproveFailed_ignored(txid) == FALSE
ApproveFailed(txid) == ~txid

\* ------------------------------------------------------------------------
\* Initial state and the frame of an operation
\* ------------------------------------------------------------------------
Call(fn, tIn, tOut, amt, lim, ok) ==
    [fn |-> fn, tokenIn |-> tIn, tokenOut |-> tOut, amt |-> amt, lim |-> lim,
     ok |-> ok]

\* the value of status before contract.methods.status has answered
NoStatus ==
    [exists |-> FALSE, active |-> FALSE, maxTokens |-> 0, maxBalance |-> 0,
     balance |-> 0, isMinter |-> FALSE]

\* the callers that may run getDTAddress concurrently on one instance
Callers == {"c1", "c2"}
\* alone: no step of another caller has run since this call began
NoGetter == [pc |-> "idle", pool |-> <<>>, ret |-> NULL, alone |-> TRUE]

NoTokensReceived ==
    [totalPoolTokens |-> NaN, dtReserve |-> NaN, oceanReserve |-> NaN,
     dtAmount |-> <<NaN, 1>>, oceanAmount |-> <<NaN, 1>>]

\* the pools of the factory and the accounts that register and hold shares
Pools == {"p1", "p2"}
Accounts == {"alice", "bob"}
\* an empty account argument
NoAccount == ""

\* a factory on which no pool has been registered
NoRegistry ==
    [events |-> <<>>, held |-> [p \in Pools |-> [a \in Accounts |-> 0]]]

NoPoolShares ==
    [account |-> NoAccount, events |-> <<>>, i |-> 0, shares |-> NaN,
     result |-> <<>>]

NoAux ==
    /\ getters = [c \in Callers |-> NoGetter]
    /\ tokenIn = NULL
    /\ tokenOut = NULL
    /\ estimateGas = "undefined"
    /\ estGas = 0
    /\ tokensReceived = NoTokensReceived
    /\ sharesByAddress = NoPoolShares

NoExt ==
    /\ NoAux
    /\ createFee = 0
    /\ dtWeight = 0
    /\ progress = <<>>
    /\ status = NoStatus
    /\ userBalance = NaN

NoLocals ==
    /\ dtAddr = NULL
    /\ balance = NaN
    /\ maxAmount = NaN
    /\ quote = NaN
    /\ usershares = NaN
    /\ sharesRequired = NaN
    /\ adjusted = Dec(0)

Init ==
    /\ reserve \in [Tokens -> ReserveValues]
    /\ shares \in ShareValues
    /\ tokens \in {<<DT, OCEAN>>, <<OCEAN, DT>>}
    /\ changes = 0
    /\ weight = [t \in Tokens |-> DenormWeight]
    /\ swapFee = SwapFee
    /\ registry = NoRegistry
    /\ oceanAddress \in {OCEAN, NULL}
    /\ dtAddress = NULL
    /\ op = "idle"
    /\ pc = "idle"
    /\ amount = 0
    /\ limit = 0
    /\ NoLocals
    /\ NoExt
    /\ calls = <<>>
    /\ result = "pending"

\* entry of an operation with arguments a and m
Enter(name, a, m, first) ==
    /\ op = "idle"
    /\ op' = name
    /\ amount' = a
    /\ limit' = m
    /\ pc' = first
    /\ result' = "pending"
    /\ calls' = <<>>
    /\ changes' = 0
    /\ UNCHANGED <<extVars, reserve, shares, tokens, poolVars, instVars,
                   localVars>>

\* entry of an operation that starts with the oceanAddress check
EnterChecked(name, a, m, first) ==
    /\ op = "idle"
    /\ op' = name
    /\ amount' = a
    /\ limit' = m
    /\ IF oceanAddress = NULL
       THEN pc' = "done" /\ result' = "null"
       ELSE pc' = first /\ result' = "pending"
    /\ calls' = <<>>
    /\ changes' = 0
    /\ UNCHANGED <<extVars, reserve, shares, tokens, poolVars, instVars,
                   localVars>>

Reject == pc' = "done" /\ result' = "null"

\* the operation has returned to its caller
Return ==
    /\ op # "idle"
    /\ pc = "done"
    /\ op' = "idle"
    /\ pc' = "idle"
    /\ amount' = 0
    /\ limit' = 0
    /\ dtAddr' = NULL
    /\ balance' = NaN
    /\ maxAmount' = NaN
    /\ quote' = NaN
    /\ usershares' = NaN
    /\ sharesRequired' = NaN
    /\ adjusted' = Dec(0)
    /\ calls' = <<>>
    /\ result' = "pending"
    /\ changes' = 0
    /\ createFee' = 0
    /\ dtWeight' = 0
    /\ progress' = <<>>
    /\ status' = NoStatus
    /\ userBalance' = NaN
    /\ tokenIn' = NULL
    /\ tokenOut' = NULL
    /\ estimateGas' = "undefined"
    /\ estGas' = 0
    /\ tokensReceived' = NoTokensReceived
    /\ sharesByAddress' = NoPoolShares
    /\ UNCHANGED <<reserve, shares, tokens, poolVars, instVars, getters>>

\* another caller's transaction is committed while the operation is suspended
LedgerChange ==
    /\ op # "idle"
    /\ pc # "done"
    /\ changes < MaxLedgerChanges
    /\ changes' = changes + 1
    /\ \/ /\ \E t \in Tokens, v \in ReserveValues :
               /\ v # reserve[t]
               /\ reserve' = [reserve EXCEPT ![t] = v]
          /\ UNCHANGED shares
       \/ /\ \E v \in ShareValues : v # shares /\ shares' = v
          /\ UNCHANGED reserve
    /\ UNCHANGED <<extVars, tokens, poolVars, instVars, argVars, pc, localVars, calls,
                   result>>

\* ------------------------------------------------------------------------
\* buyDT
\* ------------------------------------------------------------------------
buyDT_call == \E a \in Amounts, m \in Limits : EnterChecked("buyDT", a, m, "dt")

buyDT_getDTAddress ==
    /\ op = "buyDT" /\ pc = "dt"
    /\ dtAddress' = getDTAddress
    /\ dtAddr' = getDTAddress
    /\ pc' = "max"
    /\ UNCHANGED <<extVars, ledgerVars, oceanAddress, argVars, balance, maxAmount, quote,
                   usershares, sharesRequired, adjusted, calls, result>>

buyDT_checkMaxBuy ==
    /\ op = "buyDT" /\ pc = "max"
    /\ dtAddress' = getDTAddress
    /\ balance' = getReserve(getDTAddress)
    /\ IF ExceedsMaxBuyQuantity(amount, getReserve(getDTAddress))
       THEN Reject
       ELSE pc' = "quote" /\ UNCHANGED result
    /\ UNCHANGED <<extVars, ledgerVars, oceanAddress, argVars, dtAddr, maxAmount, quote,
                   usershares, sharesRequired, adjusted, calls>>

buyDT_quote_snapshot ==
    /\ op = "buyDT" /\ pc = "quote"
    /\ dtAddress' = getDTAddress
    /\ quote' = PoolCalcInGivenOut(getReserve(oceanAddress),
                                   getDenormalizedWeight(oceanAddress), balance,
                                   getDenormalizedWeight(getDTAddress), amount,
                                   getSwapFee)
    /\ IF NotEnoughOcean(quote', limit)
       THEN Reject
       ELSE pc' = "approve" /\ UNCHANGED result
    /\ UNCHANGED <<extVars, ledgerVars, oceanAddress, argVars, dtAddr, balance, maxAmount,
                   usershares, sharesRequired, adjusted, calls>>

buyDT_quote ==
    /\ op = "buyDT" /\ pc = "quote"
    /\ dtAddress' = getDTAddress
    /\ quote' = getOceanNeeded(amount)
    /\ IF NotEnoughOcean(getOceanNeeded(amount), limit)
       THEN Reject
       ELSE pc' = "approve" /\ UNCHANGED result
    /\ UNCHANGED <<extVars, ledgerVars, oceanAddress, argVars, dtAddr, balance, maxAmount,
                   usershares, sharesRequired, adjusted, calls>>

buyDT_approve_quote ==
    /\ op = "buyDT" /\ pc = "approve"
    /\ \E txid \in BOOLEAN :
        /\ calls' = Append(calls, Call("approve", oceanAddress, NULL,
                                       Dec(toWei(quote)), Dec(0), txid))
        /\ IF ApproveFailed(txid)
           THEN Reject
           ELSE pc' = "action" /\ UNCHANGED result
    /\ UNCHANGED <<extVars, ledgerVars, instVars, argVars, localVars>>

buyDT_approve ==
    /\ op = "buyDT" /\ pc = "approve"
    /\ \E txid \in BOOLEAN :
        /\ calls' = Append(calls, Call("approve", oceanAddress, NULL,
                                       Dec(toWei(limit)), Dec(0), txid))
        /\ IF ApproveFailed(txid)
           THEN Reject
           ELSE pc' = "action" /\ UNCHANGED result
    /\ UNCHANGED <<extVars, ledgerVars, instVars, argVars, localVars>>

buyDT_swap_retry ==
    /\ op = "buyDT" /\ pc = "action"
    /\ \E ok \in BOOLEAN :
        /\ calls' = Append(calls, Call("swapExactAmountOut", oceanAddress, dtAddr,
                                       Dec(amount), Dec(limit), ok))
        /\ IF ok \/ Len(calls) >= 2
           THEN pc' = "done" /\ result' = (IF ok THEN "receipt" ELSE "null")
           ELSE UNCHANGED <<pc, result>>
    /\ UNCHANGED <<extVars, ledgerVars, instVars, argVars, localVars>>

buyDT_swap ==
    /\ op = "buyDT" /\ pc = "action"
    /\ \E ok \in BOOLEAN :
        /\ calls' = Append(calls, Call("swapExactAmountOut", oceanAddress, dtAddr,
                                       Dec(amount), Dec(limit), ok))
        /\ result' = IF ok THEN "receipt" ELSE "null"
    /\ pc' = "done"
    /\ UNCHANGED <<extVars, ledgerVars, instVars, argVars, localVars>>

\* ------------------------------------------------------------------------
\* sellDT
\* ------------------------------------------------------------------------
sellDT_call == \E a \in Amounts, m \in Limits : EnterChecked("sellDT", a, m, "dt")

sellDT_getDTAddress ==
    /\ op = "sellDT" /\ pc = "dt"
    /\ dtAddress' = getDTAddress
    /\ dtAddr' = getDTAddress
    /\ pc' = "max"
    /\ UNCHANGED <<extVars, ledgerVars, oceanAddress, argVars, balance, maxAmount, quote,
                   usershares, sharesRequired, adjusted, calls, result>>

sellDT_checkMaxBuy ==
    /\ op = "sellDT" /\ pc = "max"
    /\ balance' = getReserve(oceanAddress)
    /\ IF ExceedsMaxBuyQuantity(limit, getReserve(oceanAddress))
       THEN Reject
       ELSE pc' = "quote" /\ UNCHANGED result
    /\ UNCHANGED <<extVars, ledgerVars, instVars, argVars, dtAddr, maxAmount, quote,
                   usershares, sharesRequired, adjusted, calls>>

sellDT_quote ==
    /\ op = "sellDT" /\ pc = "quote"
    /\ dtAddress' = getDTAddress
    /\ quote' = getOceanReceived(amount)
    /\ IF NotEnoughDatatokens(getOceanReceived(amount), limit)
       THEN Reject
       ELSE pc' = "approve" /\ UNCHANGED result
    /\ UNCHANGED <<extVars, ledgerVars, oceanAddress, argVars, dtAddr, balance, maxAmount,
                   usershares, sharesRequired, adjusted, calls>>

sellDT_approve ==
    /\ op = "sellDT" /\ pc = "approve"
    /\ \E txid \in BOOLEAN :
        /\ calls' = Append(calls, Call("approve", dtAddr, NULL,
                                       Dec(toWei(amount)), Dec(0), txid))
        /\ IF ApproveFailed(txid)
           THEN Reject
           ELSE pc' = "action" /\ UNCHANGED result
    /\ UNCHANGED <<extVars, ledgerVars, instVars, argVars, localVars>>

sellDT_swap ==
    /\ op = "sellDT" /\ pc = "action"
    /\ \E ok \in BOOLEAN :
        /\ calls' = Append(calls, Call("swapExactAmountIn", dtAddr, oceanAddress,
                                       Dec(amount), Dec(limit), ok))
        /\ result' = IF ok THEN "receipt" ELSE "null"
    /\ pc' = "done"
    /\ UNCHANGED <<extVars, ledgerVars, instVars, argVars, localVars>>

\* ------------------------------------------------------------------------
\* addDTLiquidity, addOceanLiquidity
\* ------------------------------------------------------------------------
addDTLiquidity_call == \E a \in Amounts : Enter("addDTLiquidity", a, 0, "dt")

addDTLiquidity_getDTAddress ==
    /\ op = "addDTLiquidity" /\ pc = "dt"
    /\ dtAddress' = getDTAddress
    /\ dtAddr' = getDTAddress
    /\ pc' = "max"
    /\ UNCHANGED <<extVars, ledgerVars, oceanAddress, argVars, balance, maxAmount, quote,
                   usershares, sharesRequired, adjusted, calls, result>>

addDTLiquidity_checkMax ==
    /\ op = "addDTLiquidity" /\ pc = "max"
    /\ balance' = getReserve(dtAddr)
    /\ maxAmount' = getMaxAddLiquidity(getReserve(dtAddr))
    /\ IF TooMuchReserveToAdd(amount, getMaxAddLiquidity(getReserve(dtAddr)))
       THEN Reject
       ELSE pc' = "approve" /\ UNCHANGED result
    /\ UNCHANGED <<extVars, ledgerVars, instVars, argVars, dtAddr, quote, usershares,
                   sharesRequired, adjusted, calls>>

addDTLiquidity_approve ==
    /\ op = "addDTLiquidity" /\ pc = "approve"
    /\ \E txid \in BOOLEAN :
        /\ calls' = Append(calls, Call("approve", dtAddr, NULL,
                                       Dec(toWei(amount)), Dec(0), txid))
        /\ IF ApproveFailed(txid)
           THEN Reject
           ELSE pc' = "action" /\ UNCHANGED result
    /\ UNCHANGED <<extVars, ledgerVars, instVars, argVars, localVars>>

addDTLiquidity_join ==
    /\ op = "addDTLiquidity" /\ pc = "action"
    /\ \E ok \in BOOLEAN :
        /\ calls' = Append(calls, Call("joinswapExternAmountIn", dtAddr, NULL,
                                       Dec(amount), Dec(0), ok))
        /\ result' = IF ok THEN "receipt" ELSE "null"
    /\ pc' = "done"
    /\ UNCHANGED <<extVars, ledgerVars, instVars, argVars, localVars>>

addOceanLiquidity_call ==
    \E a \in Amounts : EnterChecked("addOceanLiquidity", a, 0, "max")

addOceanLiquidity_checkMax ==
    /\ op = "addOceanLiquidity" /\ pc = "max"
    /\ balance' = getReserve(oceanAddress)
    /\ maxAmount' = getMaxAddLiquidity(getReserve(oceanAddress))
    /\ IF TooMuchReserveToAdd(amount, getMaxAddLiquidity(getReserve(oceanAddress)))
       THEN Reject
       ELSE pc' = "approve" /\ UNCHANGED result
    /\ UNCHANGED <<extVars, ledgerVars, instVars, argVars, dtAddr, quote, usershares,
                   sharesRequired, adjusted, calls>>

addOceanLiquidity_approve ==
    /\ op = "addOceanLiquidity" /\ pc = "approve"
    /\ \E txid \in BOOLEAN :
        /\ calls' = Append(calls, Call("approve", oceanAddress, NULL,
                                       Dec(toWei(amount)), Dec(0), txid))
        /\ IF ApproveFailed(txid)
           THEN Reject
           ELSE pc' = "action" /\ UNCHANGED result
    /\ UNCHANGED <<extVars, ledgerVars, instVars, argVars, localVars>>

addOceanLiquidity_join ==
    /\ op = "addOceanLiquidity" /\ pc = "action"
    /\ \E ok \in BOOLEAN :
        /\ calls' = Append(calls, Call("joinswapExternAmountIn", oceanAddress, NULL,
                                       Dec(amount), Dec(0), ok))
        /\ result' = IF ok THEN "receipt" ELSE "null"
    /\ pc' = "done"
    /\ UNCHANGED <<extVars, ledgerVars, instVars, argVars, localVars>>

\* ------------------------------------------------------------------------
\* removeDTLiquidity, removeOceanLiquidity
\* ------------------------------------------------------------------------
removeDTLiquidity_call ==
    \E a \in Amounts, m \in Limits : Enter("removeDTLiquidity", a, m, "dt")

removeDTLiquidity_getDTAddress ==
    /\ op = "removeDTLiquidity" /\ pc = "dt"
    /\ dtAddress' = getDTAddress
    /\ dtAddr' = getDTAddress
    /\ pc' = "max"
    /\ UNCHANGED <<extVars, ledgerVars, oceanAddress, argVars, balance, maxAmount, quote,
                   usershares, sharesRequired, adjusted, calls, result>>

removeDTLiquidity_checkMax ==
    /\ op = "removeDTLiquidity" /\ pc = "max"
    /\ dtAddress' = getDTAddress
    /\ balance' = getReserve(getDTAddress)
    /\ maxAmount' = getMaxRemoveLiquidity(getReserve(getDTAddress))
    /\ IF TooMuchReserveToRemove(amount, getMaxRemoveLiquidity(getReserve(getDTAddress)))
       THEN Reject
       ELSE pc' = "shares" /\ UNCHANGED result
    /\ UNCHANGED <<extVars, ledgerVars, oceanAddress, argVars, dtAddr, quote, usershares,
                   sharesRequired, adjusted, calls>>

removeDTLiquidity_sharesBalance ==
    /\ op = "removeDTLiquidity" /\ pc = "shares"
    /\ usershares' = sharesBalance
    /\ IF NotEnoughPoolShares(sharesBalance, limit)
       THEN Reject
       ELSE pc' = "quote" /\ UNCHANGED result
    /\ UNCHANGED <<extVars, ledgerVars, instVars, argVars, dtAddr, balance, maxAmount,
                   quote, sharesRequired, adjusted, calls>>

removeDTLiquidity_sharesRequired ==
    /\ op = "removeDTLiquidity" /\ pc = "quote"
    /\ dtAddress' = getDTAddress
    /\ sharesRequired' = getPoolSharesRequiredToRemoveDT(amount)
    /\ IF SharesBelowRequired(limit, getPoolSharesRequiredToRemoveDT(amount))
       THEN Reject /\ UNCHANGED adjusted
       ELSE /\ adjusted' = BalancerBugFixSingle(limit,
                               getPoolSharesRequiredToRemoveDT(amount))
            /\ pc' = "action"
            /\ UNCHANGED result
    /\ UNCHANGED <<extVars, ledgerVars, oceanAddress, argVars, dtAddr, balance, maxAmount,
                   quote, usershares, calls>>

removeDTLiquidity_exit ==
    /\ op = "removeDTLiquidity" /\ pc = "action"
    /\ \E ok \in BOOLEAN :
        /\ calls' = Append(calls, Call("exitswapExternAmountOut", NULL, dtAddr,
                                       Dec(amount), adjusted, ok))
        /\ result' = IF ok THEN "receipt" ELSE "null"
    /\ pc' = "done"
    /\ UNCHANGED <<extVars, ledgerVars, instVars, argVars, localVars>>

removeOceanLiquidity_call ==
    \E a \in Amounts, m \in Limits : EnterChecked("removeOceanLiquidity", a, m, "max")

removeOceanLiquidity_checkMax ==
    /\ op = "removeOceanLiquidity" /\ pc = "max"
    /\ balance' = getReserve(oceanAddress)
    /\ maxAmount' = getMaxRemoveLiquidity(getReserve(oceanAddress))
    /\ IF TooMuchReserveToRemove(amount, getMaxRemoveLiquidity(getReserve(oceanAddress)))
       THEN Reject
       ELSE pc' = "shares" /\ UNCHANGED result
    /\ UNCHANGED <<extVars, ledgerVars, instVars, argVars, dtAddr, quote, usershares,
                   sharesRequired, adjusted, calls>>

removeOceanLiquidity_sharesBalance ==
    /\ op = "removeOceanLiquidity" /\ pc = "shares"
    /\ usershares' = sharesBalance
    /\ IF NotEnoughPoolShares(sharesBalance, limit)
       THEN Reject
       ELSE pc' = "quote" /\ UNCHANGED result
    /\ UNCHANGED <<extVars, ledgerVars, instVars, argVars, dtAddr, balance, maxAmount,
                   quote, sharesRequired, adjusted, calls>>

removeOceanLiquidity_sharesRequired ==
    /\ op = "removeOceanLiquidity" /\ pc = "quote"
    /\ sharesRequired' = getPoolSharesRequiredToRemoveOcean(amount)
    /\ IF SharesBelowRequired(limit, getPoolSharesRequiredToRemoveOcean(amount))
       THEN Reject /\ UNCHANGED adjusted
       ELSE /\ adjusted' = BalancerBugFixSingle(limit,
                               getPoolSharesRequiredToRemoveOcean(amount))
            /\ pc' = "action"
            /\ UNCHANGED result
    /\ UNCHANGED <<extVars, ledgerVars, instVars, argVars, dtAddr, balance, maxAmount,
                   quote, usershares, calls>>

removeOceanLiquidity_exit ==
    /\ op = "removeOceanLiquidity" /\ pc = "action"
    /\ \E ok \in BOOLEAN :
        /\ calls' = Append(calls, Call("exitswapExternAmountOut", NULL, oceanAddress,
                                       Dec(amount), adjusted, ok))
        /\ result' = IF ok THEN "receipt" ELSE "null"
    /\ pc' = "done"
    /\ UNCHANGED <<extVars, ledgerVars, instVars, argVars, localVars>>

\* ------------------------------------------------------------------------
\* removePoolLiquidity
\* ------------------------------------------------------------------------
removePoolLiquidity_call ==
    \E a \in Amounts : Enter("removePoolLiquidity", a, 0, "shares")

removePoolLiquidity_sharesBalance ==
    /\ op = "removePoolLiquidity" /\ pc = "shares"
    /\ usershares' = sharesBalance
    /\ IF NotEnoughSharesToExit(sharesBalance, amount)
       THEN Reject /\ UNCHANGED adjusted
       ELSE /\ adjusted' = BalancerBugFixAll(sharesBalance, amount)
            /\ pc' = "action"
            /\ UNCHANGED result
    /\ UNCHANGED <<extVars, ledgerVars, instVars, argVars, dtAddr, balance, maxAmount,
                   quote, sharesRequired, calls>>

removePoolLiquidity_exitPool ==
    /\ op = "removePoolLiquidity" /\ pc = "action"
    /\ \E ok \in BOOLEAN :
        /\ calls' = Append(calls, Call("exitPool", NULL, NULL, adjusted, Dec(0), ok))
        /\ result' = IF ok THEN "receipt" ELSE "null"
    /\ pc' = "done"
    /\ UNCHANGED <<extVars, ledgerVars, instVars, argVars, localVars>>

\* ------------------------------------------------------------------------
\* getDTPrice
\* ------------------------------------------------------------------------
\* the amount '1' of getDTPrice: one datatoken, in raw units of the model
ONE_DATATOKEN == 3

getDTPrice_call == EnterChecked("getDTPrice", 0, 0, "dt")

\* getOceanNeeded: await this.getDTAddress(poolAddress)
getDTPrice_getDTAddress ==
    /\ op = "getDTPrice" /\ pc = "dt"
    /\ dtAddress' = getDTAddress
    /\ dtAddr' = getDTAddress
    /\ pc' = "quote"
    /\ UNCHANGED <<extVars, ledgerVars, oceanAddress, argVars, balance, maxAmount, quote,
                   usershares, sharesRequired, adjusted, calls, result>>

\* getOceanNeeded: this.calcInGivenOut(poolAddress, oceanAddress, dtAddress, '1')
getDTPrice_quote ==
    /\ op = "getDTPrice" /\ pc = "quote"
    /\ quote' = calcInGivenOut(oceanAddress, dtAddr, ONE_DATATOKEN)
    /\ pc' = "done"
    /\ result' = IF calcInGivenOut(oceanAddress, dtAddr, ONE_DATATOKEN) = NaN
                 THEN "null" ELSE "quote"
    /\ UNCHANGED <<extVars, ledgerVars, instVars, argVars, dtAddr, balance, maxAmount,
                   usershares, sharesRequired, adjusted, calls>>

\* ------------------------------------------------------------------------
\* calcInGivenOut and calcOutGivenIn called on their own
\* ------------------------------------------------------------------------
MathReserves == 0..MaxMathReserve
MathWeights == {1, 2}
MathFees == {0, 5, 10}

\* what a quote leaves alone
quoteFrame == <<ledgerVars, instVars, dtAddr, balance, maxAmount, usershares,
                sharesRequired, adjusted, calls, limit, createFee, dtWeight,
                progress, status, userBalance, getters, estimateGas, estGas,
                tokensReceived, sharesByAddress>>

calcInGivenOut_call ==
    /\ op = "idle"
    /\ \E i \in Tokens, o \in Tokens, a \in MathReserves :
        /\ i # o
        /\ tokenIn' = i /\ tokenOut' = o /\ amount' = a
    /\ op' = "calcInGivenOut"
    /\ pc' = "quote"
    /\ UNCHANGED <<quoteFrame, quote, result>>

calcInGivenOut_return ==
    /\ op = "calcInGivenOut" /\ pc = "quote"
    /\ quote' = calcInGivenOut(tokenIn, tokenOut, amount)
    /\ result' = IF calcInGivenOut(tokenIn, tokenOut, amount) = NaN
                 THEN "null" ELSE "quote"
    /\ pc' = "done"
    /\ UNCHANGED <<quoteFrame, op, amount, tokenIn, tokenOut>>

calcOutGivenIn_call ==
    /\ op = "idle"
    /\ \E i \in Tokens, o \in Tokens, a \in MathReserves :
        /\ i # o
        /\ tokenIn' = i /\ tokenOut' = o /\ amount' = a
    /\ op' = "calcOutGivenIn"
    /\ pc' = "quote"
    /\ UNCHANGED <<quoteFrame, quote, result>>

calcOutGivenIn_return ==
    /\ op = "calcOutGivenIn" /\ pc = "quote"
    /\ quote' = calcOutGivenIn(tokenIn, tokenOut, amount)
    /\ result' = IF calcOutGivenIn(tokenIn, tokenOut, amount) = NaN
                 THEN "null" ELSE "quote"
    /\ pc' = "done"
    /\ UNCHANGED <<quoteFrame, op, amount, tokenIn, tokenOut>>

\* ------------------------------------------------------------------------
\* getTokensRemovedforPoolShares
\* ------------------------------------------------------------------------
PoolShareAmounts == 0..(MaxShares + OtherShares)

\* Number(s) of a string or of null: Number(null) is 0
Number(v) == IF v = NaN THEN 0 ELSE v

\* (Number(poolShares) / Number(totalPoolTokens)) * Number(reserve), as a
\* fraction; not a finite number when the total is 0
ProRata(poolShares, totalPoolTokens, res) ==
    IF Number(totalPoolTokens) = 0
    THEN <<NaN, 1>>
    ELSE <<Number(poolShares) * Number(res), Number(totalPoolTokens)>>

getOceanReserve == IF oceanAddress = NULL THEN NaN ELSE getReserve(oceanAddress)

getDTReserve == getReserve(getDTAddress)

\* what getTokensRemovedforPoolShares leaves alone
removedFrame == <<ledgerVars, oceanAddress, op, amount, limit, localVars, calls,
                  createFee, dtWeight, progress, status, userBalance, getters,
                  tokenIn, tokenOut, estimateGas, estGas, sharesByAddress>>

getTokensRemovedforPoolShares_call ==
    /\ op = "idle"
    /\ op' = "getTokensRemovedforPoolShares"
    /\ \E a \in PoolShareAmounts : amount' = a
    /\ pc' = "supply"
    /\ UNCHANGED <<ledgerVars, instVars, limit, localVars, calls, result, extVars>>

getTokensRemovedforPoolShares_totalSupply ==
    /\ op = "getTokensRemovedforPoolShares" /\ pc = "supply"
    /\ tokensReceived' =
           [tokensReceived EXCEPT !.totalPoolTokens = getPoolSharesTotalSupply]
    /\ pc' = "dt"
    /\ UNCHANGED <<removedFrame, dtAddress, result>>

getTokensRemovedforPoolShares_getDTReserve ==
    /\ op = "getTokensRemovedforPoolShares" /\ pc = "dt"
    /\ dtAddress' = getDTAddress
    /\ tokensReceived' = [tokensReceived EXCEPT !.dtReserve = getDTReserve]
    /\ pc' = "ocean"
    /\ UNCHANGED <<removedFrame, result>>

getTokensRemovedforPoolShares_getOceanReserve ==
    /\ op = "getTokensRemovedforPoolShares" /\ pc = "ocean"
    /\ tokensReceived' =
           [tokensReceived EXCEPT
               !.oceanReserve = getOceanReserve,
               !.dtAmount = ProRata(amount, tokensReceived.totalPoolTokens,
                                    tokensReceived.dtReserve),
               !.oceanAmount = ProRata(amount, tokensReceived.totalPoolTokens,
                                       getOceanReserve)]
    /\ pc' = "done"
    /\ result' = "tokens"
    /\ UNCHANGED <<removedFrame, dtAddress>>

\* ------------------------------------------------------------------------
\* create (amounts and weights counted in whole tokens, the fee in 1/FeeDen)
\* ------------------------------------------------------------------------
MAX_SWAP_FEE == 10
MIN_DT_AMOUNT == 2
MIN_WEIGHT == 1
MAX_WEIGHT == 9
TOTAL_WEIGHT == 10

FeeValues == {-1, 0, MAX_SWAP_FEE, MAX_SWAP_FEE + 1}
WeightValues == 0..TOTAL_WEIGHT
OceanAmounts == -1..MaxLimit

SwapFeeTooHigh(f) == f > MAX_SWAP_FEE
AmountOfDTTooLow(dtAmount) == dtAmount < MIN_DT_AMOUNT
WeightOutOfBounds(w) == w > MAX_WEIGHT \/ w < MIN_WEIGHT

\* the arguments of super.setup
Setup(dtAmount, w, oceanAmount, oceanWeight, f, ok) ==
    [fn |-> "setup", dtAmount |-> dtAmount, dtWeight |-> w,
     oceanAmount |-> oceanAmount, oceanWeight |-> oceanWeight, fee |-> f,
     ok |-> ok]

\* the synchronous part: the four checks, then the promise is returned
create_call ==
    /\ op = "idle"
    /\ \E a \in Amounts, w \in WeightValues, o \in OceanAmounts, f \in FeeValues :
        /\ op' = "create"
        /\ amount' = a
        /\ limit' = o
        /\ dtWeight' = w
        /\ createFee' = f
        /\ IF \/ oceanAddress = NULL
              \/ SwapFeeTooHigh(f)
              \/ AmountOfDTTooLow(a)
              \/ WeightOutOfBounds(w)
           THEN Reject
           ELSE pc' = "createPool" /\ result' = "pending"
    /\ calls' = <<>>
    /\ changes' = 0
    /\ UNCHANGED <<reserve, shares, tokens, poolVars, instVars, localVars, progress, status,
                   userBalance, auxVars>>

create_createPool ==
    /\ op = "create" /\ pc = "createPool"
    /\ progress' = Append(progress, "CreatingPool")
    /\ \E ok \in BOOLEAN :
        /\ calls' = Append(calls, Call("createPool", NULL, NULL, Dec(0), Dec(0), ok))
        /\ IF ApproveFailed(ok)
           THEN Reject
           ELSE pc' = "approveDT" /\ UNCHANGED result
    /\ UNCHANGED <<ledgerVars, instVars, argVars, localVars, createFee, dtWeight,
                   status, userBalance, auxVars>>

create_approveDT ==
    /\ op = "create" /\ pc = "approveDT"
    /\ dtAddress' = DT
    /\ progress' = Append(progress, "ApprovingDatatoken")
    /\ \E ok \in BOOLEAN :
        /\ calls' = Append(calls, Call("approve", DT, NULL, Dec(toWei(amount)),
                                       Dec(0), ok))
        /\ IF ApproveFailed(ok)
           THEN Reject
           ELSE pc' = "approveOcean" /\ UNCHANGED result
    /\ UNCHANGED <<ledgerVars, oceanAddress, argVars, localVars, createFee,
                   dtWeight, status, userBalance, auxVars>>

create_approveOcean_unchecked ==
    /\ op = "create" /\ pc = "approveOcean"
    /\ progress' = Append(progress, "ApprovingOcean")
    /\ \E ok \in BOOLEAN :
        calls' = Append(calls, Call("approve", oceanAddress, NULL,
                                    Dec(toWei(limit)), Dec(0), ok))
    /\ pc' = "setup"
    /\ UNCHANGED <<ledgerVars, instVars, argVars, localVars, createFee, dtWeight,
                   status, userBalance, auxVars, result>>

create_approveOcean ==
    /\ op = "create" /\ pc = "approveOcean"
    /\ progress' = Append(progress, "ApprovingOcean")
    /\ \E ok \in BOOLEAN :
        /\ calls' = Append(calls, Call("approve", oceanAddress, NULL,
                                       Dec(toWei(limit)), Dec(0), ok))
        /\ IF ApproveFailed(ok)
           THEN Reject
           ELSE pc' = "setup" /\ UNCHANGED result
    /\ UNCHANGED <<ledgerVars, instVars, argVars, localVars, createFee, dtWeight,
                   status, userBalance, auxVars>>

create_setup ==
    /\ op = "create" /\ pc = "setup"
    /\ progress' = Append(progress, "SetupPool")
    /\ \E ok \in BOOLEAN :
        /\ calls' = Append(calls, Setup(toWei(amount), toWei(dtWeight), toWei(limit),
                                        toWei(TOTAL_WEIGHT - dtWeight),
                                        toWei(createFee), ok))
        /\ pc' = "done"
        /\ result' = (IF ApproveFailed(ok) THEN "null" ELSE "receipt")
    /\ UNCHANGED <<ledgerVars, instVars, argVars, localVars, createFee, dtWeight,
                   status, userBalance, auxVars>>

\* ------------------------------------------------------------------------
\* Dispenser.isDispensable (amounts counted in whole tokens)
\* ------------------------------------------------------------------------
StatusValues ==
    [exists : BOOLEAN, active : BOOLEAN, maxTokens : 0..MaxDispense,
     maxBalance : 0..MaxDispense, balance : 0..MaxDispense, isMinter : BOOLEAN]
DispenseAmounts == 0..(MaxDispense + 1)

Inactive_unlessMinter(st) == st.active = FALSE /\ st.isMinter = FALSE
Inactive(st) == st.active = FALSE

BalanceAtCeiling_strict(b, maxBalance) == b > maxBalance
BalanceAtCeiling(b, maxBalance) == b >= maxBalance

OverMaxTokens(a, maxTokens) == a > maxTokens
CanCover(st, a) == st.balance >= a \/ st.isMinter = TRUE

isDispensable_call ==
    \E a \in DispenseAmounts : Enter("isDispensable", a, 0, "status")

\* await this.status(dtAddress), then the checks made on it alone
isDispensable_status ==
    /\ op = "isDispensable" /\ pc = "status"
    /\ \E st \in StatusValues :
        /\ status' = st
        /\ IF ~st.exists
           THEN pc' = "done" /\ result' = "throw"
           ELSE IF Inactive(st)
                THEN pc' = "done" /\ result' = "false"
                ELSE pc' = "balance" /\ UNCHANGED result
    /\ UNCHANGED <<ledgerVars, instVars, argVars, localVars, calls, createFee,
                   dtWeight, progress, userBalance, auxVars>>

\* await datatoken.balance(dtAddress, address), then the remaining checks
isDispensable_balance ==
    /\ op = "isDispensable" /\ pc = "balance"
    /\ \E b \in 0..MaxDispense :
        /\ userBalance' = b
        /\ result' = IF BalanceAtCeiling(b, status.maxBalance) THEN "false"
                     ELSE IF OverMaxTokens(amount, status.maxTokens) THEN "false"
                     ELSE IF CanCover(status, amount) THEN "true"
                     ELSE "false"
    /\ pc' = "done"
    /\ UNCHANGED <<ledgerVars, instVars, argVars, localVars, calls, createFee,
                   dtWeight, progress, status, auxVars>>

\* ------------------------------------------------------------------------
\* Dispenser: create, activate, deactivate, setAllowedSwapper, dispense,
\* ownerWithdraw
\* ------------------------------------------------------------------------
DispenserMethods ==
    {"Dispenser.create", "Dispenser.activate", "Dispenser.deactivate",
     "Dispenser.setAllowedSwapper", "Dispenser.dispense",
     "Dispenser.ownerWithdraw"}

\* estimateGas?: G, tested with if (estimateGas)
EstimateGasValues == {"true", "false", "undefined"}
EstimateOnly(flag) == flag = "true"

\* the gas limit handed to sendTx
GasLimit_exact(est) == est
GasLimit(est) == est + 1

SendTx(method, gas, ok) == [fn |-> "sendTx", method |-> method, gas |-> gas, ok |-> ok]

\* what a Dispenser transaction leaves alone
txFrame == <<ledgerVars, instVars, amount, limit, localVars, createFee, dtWeight,
             progress, status, userBalance, getters, tokenIn, tokenOut,
             tokensReceived, sharesByAddress>>

Dispenser_call(method) ==
    /\ op = "idle"
    /\ op' = method
    /\ \E flag \in EstimateGasValues : estimateGas' = flag
    /\ pc' = "estimate"
    /\ UNCHANGED <<txFrame, calls, result, estGas>>

Dispenser_create == Dispenser_call("Dispenser.create")
Dispenser_activate == Dispenser_call("Dispenser.activate")
Dispenser_deactivate == Dispenser_call("Dispenser.deactivate")
Dispenser_setAllowedSwapper == Dispenser_call("Dispenser.setAllowedSwapper")
Dispenser_dispense == Dispenser_call("Dispenser.dispense")
Dispenser_ownerWithdraw == Dispenser_call("Dispenser.ownerWithdraw")

\* await calculateEstimatedGas(...), then if (estimateGas) return estGas
Dispenser_estimated ==
    /\ op \in DispenserMethods /\ pc = "estimate"
    /\ \E est \in 1..MaxGas : estGas' = est
    /\ IF EstimateOnly(estimateGas)
       THEN pc' = "done" /\ result' = "estimate"
       ELSE pc' = "send" /\ UNCHANGED result
    /\ UNCHANGED <<txFrame, op, calls, estimateGas>>

\* await sendTx(address, estGas + 1, ...)
Dispenser_sent ==
    /\ op \in DispenserMethods /\ pc = "send"
    /\ \E ok \in BOOLEAN :
        /\ calls' = Append(calls, SendTx(op, GasLimit(estGas), ok))
        /\ result' = IF ok THEN "receipt" ELSE "throw"
    /\ pc' = "done"
    /\ UNCHANGED <<txFrame, op, estimateGas, estGas>>

\* ------------------------------------------------------------------------
\* getDTAddress called by several callers on one instance
\* ------------------------------------------------------------------------
\* everything that belongs to the single operation in flight
opVars == <<argVars, pc, localVars, calls, result, createFee, dtWeight, progress,
            status, userBalance, tokenIn, tokenOut, estimateGas, estGas,
            tokensReceived, sharesByAddress>>

\* the token lists getCurrentTokens answers for the pools asked about
PoolLists == {<<DT, OCEAN>>, <<OCEAN, DT2>>, <<OCEAN>>, <<>>}

\* the for loop of getDTAddress, started with this.dtAddress = cur
LoopOver(toks, ocean, cur) ==
    IF \A i \in 1..Len(toks) : toks[i] = ocean
    THEN cur
    ELSE LastOther(toks, ocean)

\* the calls of the other callers that are in flight no longer run alone
Disturbed(c, g) ==
    [o \in Callers |->
        IF o # c /\ g[o].pc # "idle" THEN [g[o] EXCEPT !.alone = FALSE]
        ELSE g[o]]

getDTAddress_call_noReset(c) ==
    /\ getters[c].pc = "idle"
    /\ \E pool \in PoolLists :
        getters' = Disturbed(c, [getters EXCEPT ![c] =
                       [pc |-> "tokens", pool |-> pool, ret |-> NULL,
                        alone |-> \A o \in Callers \ {c} :
                                      getters[o].pc = "idle"]])
    /\ UNCHANGED dtAddress
    /\ UNCHANGED <<ledgerVars, oceanAddress, opVars>>

\* this.dtAddress = null, then the call is suspended in getCurrentTokens
getDTAddress_call(c) ==
    /\ getters[c].pc = "idle"
    /\ \E pool \in PoolLists :
        getters' = Disturbed(c, [getters EXCEPT ![c] =
                       [pc |-> "tokens", pool |-> pool, ret |-> NULL,
                        alone |-> \A o \in Callers \ {c} :
                                      getters[o].pc = "idle"]])
    /\ dtAddress' = NULL
    /\ UNCHANGED <<ledgerVars, oceanAddress, opVars>>

\* the tokens have arrived: the loop and return this.dtAddress
getDTAddress_resume(c) ==
    /\ getters[c].pc = "tokens"
    /\ dtAddress' = LoopOver(getters[c].pool, oceanAddress, dtAddress)
    /\ getters' = Disturbed(c, [getters EXCEPT ![c].pc = "done",
                                               ![c].ret = dtAddress'])
    /\ UNCHANGED <<ledgerVars, oceanAddress, opVars>>

\* the caller has taken the answer
getDTAddress_done(c) ==
    /\ getters[c].pc = "done"
    /\ getters' = [getters EXCEPT ![c] = NoGetter]
    /\ UNCHANGED <<ledgerVars, instVars, opVars>>

\* ------------------------------------------------------------------------
\* getPoolSharesByAddress
\* ------------------------------------------------------------------------
\* the BPoolRegistered events a factory can hold: each pool registered at most
\* once, by any account
Registered(p, a) == [pool |-> p, registeredBy |-> a]
EventLists ==
    {<<>>}
    \cup {<<Registered(p, a)>> : p \in Pools, a \in Accounts}
    \cup {<<Registered(p, a), Registered(q, b)>> :
              <<p, q>> \in {pq \in Pools \X Pools : pq[1] # pq[2]},
              <<a, b>> \in Accounts \X Accounts}

\* getPastEvents('BPoolRegistered', { filter: account ? { registeredBy:
\* account } : {} })
PastEvents(events, account) ==
    IF account # NoAccount
    THEN SelectSeq(events, LAMBDA e : e.registeredBy = account)
    ELSE events

\* super.sharesBalance(account, pool): the balance as a decimal string, null
\* when the ledger call fails (as it does for an empty account)
sharesBalanceOf(account, pool) ==
    IF account \in Accounts THEN registry.held[pool][account] ELSE NaN

\* if (shares): any non-empty string, '0' included, passes; null does not
Truthy(v) == v # NaN

PoolShare(s, pool, dt) == [shares |-> s, poolAddress |-> pool, did |-> dt]

\* what getPoolSharesByAddress leaves alone
sharesFrame == <<ledgerVars, oceanAddress, argVars, localVars, calls, createFee,
                 dtWeight, progress, status, userBalance, getters, tokenIn,
                 tokenOut, estimateGas, estGas, tokensReceived>>

\* the loop has moved past events[i]
NextEvent(ps) ==
    /\ sharesByAddress' = [ps EXCEPT !.i = ps.i + 1]
    /\ IF ps.i < Len(ps.events)
       THEN pc' = "shares" /\ UNCHANGED result
       ELSE pc' = "done" /\ result' = "list"

getPoolSharesByAddress_call ==
    /\ op = "idle"
    /\ op' = "getPoolSharesByAddress"
    /\ \E a \in Accounts \cup {NoAccount} :
           sharesByAddress' = [NoPoolShares EXCEPT !.account = a]
    /\ pc' = "events"
    /\ UNCHANGED <<ledgerVars, instVars, amount, limit, localVars, calls, result,
                   createFee, dtWeight, progress, status, userBalance, getters,
                   tokenIn, tokenOut, estimateGas, estGas, tokensReceived>>

getPoolSharesByAddress_getPastEvents ==
    /\ op = "getPoolSharesByAddress" /\ pc = "events"
    /\ NextEvent([sharesByAddress EXCEPT
                     !.events = PastEvents(registry.events,
                                           sharesByAddress.account)])
    /\ UNCHANGED <<sharesFrame, dtAddress>>

getPoolSharesByAddress_sharesBalance ==
    /\ op = "getPoolSharesByAddress" /\ pc = "shares"
    /\ LET ps == sharesByAddress
           s == sharesBalanceOf(ps.account, ps.events[ps.i].pool)
       IN  IF Truthy(s)
           THEN /\ sharesByAddress' = [ps EXCEPT !.shares = s]
                /\ pc' = "did"
                /\ UNCHANGED result
           ELSE NextEvent([ps EXCEPT !.shares = s])
    /\ UNCHANGED <<sharesFrame, dtAddress>>

getPoolSharesByAddress_getDTAddress ==
    /\ op = "getPoolSharesByAddress" /\ pc = "did"
    /\ dtAddress' = getDTAddress
    /\ LET ps == sharesByAddress
       IN  NextEvent([ps EXCEPT
                         !.result = Append(ps.result,
                                           PoolShare(ps.shares,
                                                     ps.events[ps.i].pool,
                                                     getDTAddress))])
    /\ UNCHANGED sharesFrame

\* ------------------------------------------------------------------------
\* removePoolLiquidity repeated by a holder who redeems the whole balance
\* ------------------------------------------------------------------------
\* the balances the holder starts from: a few raw units, and balances of
\* which 0.9999 is a whole number of raw units
RedeemBalances == (1..MaxShares) \cup {EPS_DEN * k : k \in 1..MaxShares}

\* the raw units of shares burnt by an exit of poolAmountIn: the ledger
\* holds whole raw units and never burns more than it was asked to
exitPoolBurn(poolAmountIn) == poolAmountIn[1] \div poolAmountIn[2]

\* removePoolLiquidity(account, pool, poolShares = the current balance)
removeAllLiquidity_call == Enter("removePoolLiquidity", shares, 0, "shares")

\* this.exitPool(...) succeeds and is committed on the ledger
removePoolLiquidity_exitPoolCommitted ==
    /\ op = "removePoolLiquidity" /\ pc = "action"
    /\ calls' = Append(calls, Call("exitPool", NULL, NULL, adjusted, Dec(0), TRUE))
    /\ result' = "receipt"
    /\ shares' = shares - exitPoolBurn(adjusted)
    /\ pc' = "done"
    /\ UNCHANGED <<extVars, reserve, tokens, changes, poolVars, instVars,
                   argVars, localVars>>

\* ------------------------------------------------------------------------
\* Specification
\* ------------------------------------------------------------------------
Next ==
    \/ buyDT_call \/ buyDT_getDTAddress \/ buyDT_checkMaxBuy \/ buyDT_quote
    \/ buyDT_approve \/ buyDT_swap
    \/ sellDT_call \/ sellDT_getDTAddress \/ sellDT_checkMaxBuy \/ sellDT_quote
    \/ sellDT_approve \/ sellDT_swap
    \/ addDTLiquidity_call \/ addDTLiquidity_getDTAddress \/ addDTLiquidity_checkMax
    \/ addDTLiquidity_approve \/ addDTLiquidity_join
    \/ addOceanLiquidity_call \/ addOceanLiquidity_checkMax
    \/ addOceanLiquidity_approve \/ addOceanLiquidity_join
    \/ removeDTLiquidity_call \/ removeDTLiquidity_getDTAddress
    \/ removeDTLiquidity_checkMax \/ removeDTLiquidity_sharesBalance
    \/ removeDTLiquidity_sharesRequired \/ removeDTLiquidity_exit
    \/ removeOceanLiquidity_call \/ removeOceanLiquidity_checkMax
    \/ removeOceanLiquidity_sharesBalance \/ removeOceanLiquidity_sharesRequired
    \/ removeOceanLiquidity_exit
    \/ removePoolLiquidity_call \/ removePoolLiquidity_sharesBalance
    \/ removePoolLiquidity_exitPool
    \/ getDTPrice_call \/ getDTPrice_getDTAddress \/ getDTPrice_quote
    \/ Return
    \/ LedgerChange

Spec == Init /\ [][Next]_vars

\* pool creation alone, on an instance with or without oceanAddress
InitCreate ==
    /\ reserve = [t \in Tokens |-> 0]
    /\ shares = 0
    /\ tokens = <<DT, OCEAN>>
    /\ changes = 0
    /\ weight = [t \in Tokens |-> DenormWeight]
    /\ swapFee = SwapFee
    /\ registry = NoRegistry
    /\ oceanAddress \in {OCEAN, NULL}
    /\ dtAddress = NULL
    /\ op = "idle"
    /\ pc = "idle"
    /\ amount = 0
    /\ limit = 0
    /\ NoLocals
    /\ NoExt
    /\ calls = <<>>
    /\ result = "pending"

NextCreate ==
    \/ create_call \/ create_createPool \/ create_approveDT
    \/ create_approveOcean \/ create_setup
    \/ Return

SpecCreate == InitCreate /\ [][NextCreate]_vars

\* the dispenser alone
InitDispenser ==
    /\ InitCreate
    /\ oceanAddress = OCEAN

NextDispenser ==
    \/ isDispensable_call \/ isDispensable_status \/ isDispensable_balance
    \/ Return

SpecDispenser == InitDispenser /\ [][NextDispenser]_vars

\* concurrent getDTAddress calls, on an instance with or without oceanAddress
InitGetters == InitCreate

NextGetters ==
    \E c \in Callers :
        \/ getDTAddress_call(c)
        \/ getDTAddress_resume(c)
        \/ getDTAddress_done(c)

SpecGetters == InitGetters /\ [][NextGetters]_vars

\* the two quotes alone, over pools of every reserve, weight and fee
InitMath ==
    /\ reserve \in [Tokens -> MathReserves]
    /\ weight \in [Tokens -> MathWeights]
    /\ swapFee \in MathFees
    /\ registry = NoRegistry
    /\ shares = 0
    /\ tokens = <<DT, OCEAN>>
    /\ changes = 0
    /\ oceanAddress = OCEAN
    /\ dtAddress = NULL
    /\ op = "idle"
    /\ pc = "idle"
    /\ amount = 0
    /\ limit = 0
    /\ NoLocals
    /\ NoExt
    /\ calls = <<>>
    /\ result = "pending"

NextMath ==
    \/ calcInGivenOut_call \/ calcInGivenOut_return
    \/ calcOutGivenIn_call \/ calcOutGivenIn_return
    \/ Return

SpecMath == InitMath /\ [][NextMath]_vars

\* the transactions of the dispenser alone
InitDispenserTx == InitDispenser

NextDispenserTx ==
    \/ Dispenser_create \/ Dispenser_activate \/ Dispenser_deactivate
    \/ Dispenser_setAllowedSwapper \/ Dispenser_dispense
    \/ Dispenser_ownerWithdraw
    \/ Dispenser_estimated \/ Dispenser_sent
    \/ Return

SpecDispenserTx == InitDispenserTx /\ [][NextDispenserTx]_vars

\* getTokensRemovedforPoolShares alone, on a ledger nobody else changes
InitRemoved == Init

NextRemoved ==
    \/ getTokensRemovedforPoolShares_call
    \/ getTokensRemovedforPoolShares_totalSupply
    \/ getTokensRemovedforPoolShares_getDTReserve
    \/ getTokensRemovedforPoolShares_getOceanReserve
    \/ Return

SpecRemoved == InitRemoved /\ [][NextRemoved]_vars

\* getPoolSharesByAddress alone, over every factory of at most two pools
InitShares ==
    /\ reserve = [t \in Tokens |-> 0]
    /\ shares = 0
    /\ tokens = <<DT, OCEAN>>
    /\ changes = 0
    /\ weight = [t \in Tokens |-> DenormWeight]
    /\ swapFee = SwapFee
    /\ registry \in [events : EventLists,
                     held : [Pools -> [Accounts -> ShareValues]]]
    /\ oceanAddress = OCEAN
    /\ dtAddress = NULL
    /\ op = "idle"
    /\ pc = "idle"
    /\ amount = 0
    /\ limit = 0
    /\ NoLocals
    /\ NoExt
    /\ calls = <<>>
    /\ result = "pending"

NextShares ==
    \/ getPoolSharesByAddress_call
    \/ getPoolSharesByAddress_getPastEvents
    \/ getPoolSharesByAddress_sharesBalance
    \/ getPoolSharesByAddress_getDTAddress
    \/ Return

SpecShares == InitShares /\ [][NextShares]_vars

\* a holder redeeming the whole balance again and again; every call is
\* eventually made, runs to its end and returns
InitRedeem ==
    /\ reserve \in [Tokens -> ReserveValues]
    /\ shares \in RedeemBalances
    /\ tokens \in {<<DT, OCEAN>>, <<OCEAN, DT>>}
    /\ changes = 0
    /\ weight = [t \in Tokens |-> DenormWeight]
    /\ swapFee = SwapFee
    /\ registry = NoRegistry
    /\ oceanAddress \in {OCEAN, NULL}
    /\ dtAddress = NULL
    /\ op = "idle"
    /\ pc = "idle"
    /\ amount = 0
    /\ limit = 0
    /\ NoLocals
    /\ NoExt
    /\ calls = <<>>
    /\ result = "pending"

NextRedeem ==
    \/ removeAllLiquidity_call
    \/ removePoolLiquidity_sharesBalance
    \/ removePoolLiquidity_exitPoolCommitted
    \/ Return

SpecRedeem == InitRedeem /\ [][NextRedeem]_vars /\ WF_vars(NextRedeem)

TypeOK ==
    /\ reserve \in [Tokens -> ReserveValues \cup MathReserves]
    /\ shares \in ShareValues \cup (0..(EPS_DEN * MaxShares))
    /\ oceanAddress \in {OCEAN, NULL}
    /\ dtAddress \in Tokens \cup {DT2, NULL}
    /\ result \in {"pending", "null", "receipt", "quote", "true", "false",
                   "throw", "estimate", "tokens", "list"}
    /\ Len(calls) <= 4
    /\ Len(progress) <= 4

\* ------------------------------------------------------------------------
\* Properties
\* ------------------------------------------------------------------------
RemoveSingleOps == {"removeDTLiquidity", "removeOceanLiquidity"}
AddSingleOps == {"addDTLiquidity", "addOceanLiquidity"}
SwapOps == {"buyDT", "sellDT"}
ActionFns == {"swapExactAmountOut", "swapExactAmountIn", "joinswapExternAmountIn"}

Rejected == pc = "done" /\ result = "null"
Epsilon(n) == <<n * EPS_NUM, EPS_DEN>>

\* C1: in buyDT, whenever the input quoted for the wanted output exceeds
\* maxOceanAmount, the operation is rejected and neither approve nor the swap
\* has been issued.
C1_BuyOverLimitRejected ==
    (op = "buyDT" /\ quote # NaN /\ quote > limit)
        => (Rejected /\ calls = <<>>)

C1_Witness ==
    op = "buyDT" /\ quote # NaN /\ quote > limit /\ Rejected /\ amount > 0

\* C2: in removeDTLiquidity / removeOceanLiquidity, whenever the requested
\* amount exceeds the withdrawal ceiling of the asset's reserve, the operation
\* is rejected and no call has been issued to the ledger.
C2_RemoveOverCeilingRejected ==
    (op \in RemoveSingleOps /\ maxAmount # NaN /\ amount > maxAmount)
        => (Rejected /\ calls = <<>>)

C2_Witness ==
    /\ op = "removeDTLiquidity" /\ maxAmount # NaN /\ balance > 0
    /\ amount > maxAmount /\ Rejected

\* C3: in removePoolLiquidity, when poolShares equals the caller's share
\* balance the exit is issued with poolShares x 0.9999, and the share amount
\* of every exit issued is at most the share balance read in that call.
C3_FullExitEpsilon ==
    op = "removePoolLiquidity" =>
        /\ (pc = "done" /\ usershares # NaN /\ usershares = amount) =>
               /\ Len(calls) = 1
               /\ calls[1].fn = "exitPool"
               /\ RatEQ(calls[1].amt, Epsilon(amount))
        /\ \A i \in 1..Len(calls) : RatLE(calls[i].amt, Dec(usershares))

C3_Witness ==
    /\ op = "removePoolLiquidity" /\ pc = "done" /\ usershares = amount
    /\ amount > 0 /\ Len(calls) = 1 /\ calls[1].amt = Epsilon(amount)

\* C4 (as stated): for every reserve, zero included, the ceiling of
\* getMaxAddLiquidity / getMaxRemoveLiquidity is floor(reserve x 0.25) - 1 raw
\* units and is strictly less than 0.25 x reserve.
C4_CeilingEveryReserve ==
    (op \in AddSingleOps \cup RemoveSingleOps /\ maxAmount # NaN /\ balance # NaN)
        => /\ maxAmount = fromWei((toWei(balance) \div 4) - 1)
           /\ 4 * maxAmount < balance

\* C4 (amended): for every positive reserve, reserves of a few raw units
\* included, the ceiling is floor(reserve x 0.25) - 1 raw units and is
\* strictly less than 0.25 x reserve; for a zero reserve the ceiling is 0.
C4_CeilingPositiveReserve ==
    (op \in AddSingleOps \cup RemoveSingleOps /\ maxAmount # NaN /\ balance # NaN)
        => IF balance > 0
           THEN /\ maxAmount = fromWei((toWei(balance) \div 4) - 1)
                /\ 4 * maxAmount < balance
           ELSE maxAmount = 0

C4_Witness ==
    /\ op \in AddSingleOps /\ balance > 0 /\ balance < 4 /\ maxAmount = -1

\* the output amount requested by a swap operation
RequestedOut == IF op = "buyDT" THEN amount ELSE limit

\* C5: a buyDT / sellDT whose output amount exceeds one quarter of the output
\* asset's reserve read in that call issues no approve and no swap, and ends
\* rejected (stated for a positive amount and an available quote).
C5_QuarterOfOutputReserve ==
    (/\ op \in SwapOps /\ amount > 0 /\ quote # NaN
     /\ balance # NaN /\ 4 * RequestedOut > balance)
        => (calls = <<>> /\ (pc = "done" => result = "null"))

\* the reserve-fraction ceiling of the current reserve of token t
Ceiling(t) == getMaxAddLiquidity(getReserve(t))

\* C6: no approve or swap is issued by buyDT when the quoted input exceeds the
\* ceiling of the ocean reserve, nor by sellDT when dtAmount exceeds the
\* ceiling of the datatoken reserve (stated for a positive amount, an available
\* quote and a ledger unchanged during the call).
C6_InputUnderCeiling ==
    (/\ op \in SwapOps /\ amount > 0 /\ quote # NaN
     /\ changes = 0 /\ calls # <<>>) =>
        IF op = "buyDT"
        THEN quote <= Ceiling(oceanAddress)
        ELSE amount <= Ceiling(dtAddr)

\* C7: in removeDTLiquidity / removeOceanLiquidity, when the shares required
\* equal maximumPoolShares the share ceiling passed to the exit is
\* maximumPoolShares x 0.9999.
C7_SingleExitEpsilon ==
    (/\ op \in RemoveSingleOps /\ pc \in {"action", "done"}
     /\ sharesRequired # NaN /\ sharesRequired = limit)
        => RatEQ(adjusted, Epsilon(limit))

\* C8: whenever removeDTLiquidity / removeOceanLiquidity issues the exit, the
\* share balance read in the call is >= the share ceiling passed, which is >=
\* the shares quoted as required; a call with balance < maximumPoolShares or
\* maximumPoolShares < shares required is rejected without any exit call.
C8_ExitShareOrder ==
    op \in RemoveSingleOps =>
        /\ \A i \in 1..Len(calls) :
               /\ calls[i].fn = "exitswapExternAmountOut"
               /\ RatLE(calls[i].lim, Dec(usershares))
               /\ sharesRequired # NaN => RatLE(Dec(sharesRequired), calls[i].lim)
        /\ (usershares # NaN /\ usershares < limit) => (Rejected /\ calls = <<>>)
        /\ (sharesRequired # NaN /\ limit < sharesRequired)
               => (Rejected /\ calls = <<>>)

C8_Witness ==
    /\ op = "removeDTLiquidity" /\ Len(calls) = 1 /\ sharesRequired # NaN
    /\ sharesRequired > 0 /\ amount > 0

\* C9: removePoolLiquidity with poolShares strictly greater than the caller's
\* share balance is rejected and issues no exit call.
C9_ExitOverBalanceRejected ==
    (op = "removePoolLiquidity" /\ usershares # NaN /\ amount > usershares)
        => (Rejected /\ calls = <<>>)

C9_Witness ==
    /\ op = "removePoolLiquidity" /\ usershares # NaN /\ usershares > 0
    /\ amount > usershares /\ Rejected

\* C10: in buyDT, sellDT, addDTLiquidity and addOceanLiquidity the swap or
\* join is issued only after approve has returned successfully; when approve
\* fails the operation is rejected and the swap or join is never issued.
C10_ActionAfterApprove ==
    op \in SwapOps \cup AddSingleOps =>
        /\ \A i \in 1..Len(calls) :
               calls[i].fn \in ActionFns =>
                   /\ i = 2
                   /\ calls[1].fn = "approve"
                   /\ calls[1].ok
        /\ (calls # <<>> /\ ~calls[1].ok) =>
               (calls[1].fn = "approve" /\ Len(calls) = 1 /\ Rejected)

C10_Witness ==
    /\ op \in SwapOps \cup AddSingleOps
    /\ Len(calls) = 1 /\ calls[1].fn = "approve" /\ ~calls[1].ok /\ Rejected

\* C11: each buyDT, sellDT, addDTLiquidity or addOceanLiquidity issues at most
\* one approve and at most one swap or join, in that order; when approve
\* succeeds and the swap or join fails, no further call is issued.
C11_OneApproveOneAction ==
    op \in SwapOps \cup AddSingleOps =>
        /\ Len(calls) <= 2
        /\ Len(calls) >= 1 => calls[1].fn = "approve"
        /\ Len(calls) = 2 => (calls[2].fn \in ActionFns /\ pc = "done")
        /\ (Len(calls) = 2 /\ ~calls[2].ok) => Rejected

C11_Witness ==
    /\ op \in SwapOps \cup AddSingleOps
    /\ Len(calls) = 2 /\ calls[1].ok /\ ~calls[2].ok /\ Rejected

\* the operations that rely on oceanAddress, directly or through getDTAddress
OceanOps == SwapOps \cup AddSingleOps \cup RemoveSingleOps

\* C12: with oceanAddress unset, every operation that relies on it (the
\* datatoken-side addDTLiquidity and removeDTLiquidity included) is rejected
\* before any ledger read, approve or mutating call.
C12_UnsetOceanFailsFast ==
    (oceanAddress = NULL /\ op \in OceanOps) =>
        /\ NoLocals
        /\ calls = <<>>
        /\ pc = "done" => result = "null"
MutatingOps == OceanOps \cup {"removePoolLiquidity"}

\* C13: every mutating operation called with a non-positive amount is rejected
\* and issues no approve and no state-changing action.
C13_NonPositiveAmountRejected ==
    (op \in MutatingOps /\ amount <= 0) =>
        /\ calls = <<>>
        /\ pc = "done" => result = "null"

\* the arguments a call of buyDT, sellDT or a single-asset add must carry
ExactArgs(c) ==
    CASE c.fn = "approve" ->
             c.amt = Dec(IF op = "buyDT" THEN limit ELSE amount)
      [] c.fn \in {"swapExactAmountOut", "swapExactAmountIn"} ->
             c.amt = Dec(amount) /\ c.lim = Dec(limit)
      [] c.fn = "joinswapExternAmountIn" ->
             c.amt = Dec(amount) /\ c.lim = Dec(0)
      [] OTHER -> FALSE

\* C16: buyDT, sellDT and the single-asset adds pass exactly the caller's
\* amounts and limits to approve and to the swap or join; a full exit with
\* poolShares strictly below the balance is issued with exactly poolShares;
\* the 0.9999 factor appears in no call outside the exit paths.
C16_RequestUnchanged ==
    /\ op \in SwapOps \cup AddSingleOps =>
           \A i \in 1..Len(calls) : ExactArgs(calls[i])
    /\ (op = "removePoolLiquidity" /\ usershares # NaN /\ amount < usershares) =>
           \A i \in 1..Len(calls) : calls[i].amt = Dec(amount)
    /\ op \notin RemoveSingleOps \cup {"removePoolLiquidity"} =>
           \A i \in 1..Len(calls) : calls[i].amt[2] = 1 /\ calls[i].lim[2] = 1

C16_Witness ==
    /\ op = "removePoolLiquidity" /\ amount > 0 /\ amount < usershares
    /\ Len(calls) = 1 /\ calls[1].amt = Dec(amount)

\* C17: in sellDT, whenever the output quoted for dtAmount is below
\* oceanAmountWanted, the operation is rejected and neither approve nor the
\* swap has been issued.
C17_SellUnderMinRejected ==
    (op = "sellDT" /\ quote # NaN /\ quote < limit)
        => (Rejected /\ calls = <<>>)

C17_Witness ==
    op = "sellDT" /\ quote # NaN /\ quote < limit /\ amount > 0 /\ Rejected

\* C18: in addDTLiquidity / addOceanLiquidity, an amount above the ceiling of
\* the asset's reserve (any positive amount on a zero reserve included) is
\* rejected with no approve and no join; otherwise approve is issued with
\* exactly the amount and the join that follows it carries exactly the amount.
C18_AddCeiling ==
    (op \in AddSingleOps /\ maxAmount # NaN) =>
        IF amount > maxAmount
        THEN Rejected /\ calls = <<>>
        ELSE /\ pc \in {"action", "done"} =>
                  (Len(calls) >= 1 /\ calls[1].fn = "approve"
                   /\ calls[1].amt = Dec(amount))
             /\ (pc = "done" /\ calls[1].ok) =>
                  (Len(calls) = 2 /\ calls[2].fn = "joinswapExternAmountIn"
                   /\ calls[2].amt = Dec(amount))
             /\ (balance = 0 /\ amount > 0) => FALSE

C18_Witness ==
    /\ op \in AddSingleOps /\ balance = 0 /\ amount > 0 /\ Rejected
    /\ calls = <<>>

C18_WitnessAccepted ==
    /\ op \in AddSingleOps /\ amount > 0 /\ Len(calls) = 2

\* the kind of section 7 of the design that names the cause of a rejection,
\* read off the place where the operation stopped
RejectionKind ==
    IF calls # <<>> THEN "CollaboratorFailure"
    ELSE IF oceanAddress = NULL THEN "ConfigurationError"
    ELSE IF op \in SwapOps /\ quote # NaN THEN "LimitExceeded"
    ELSE IF op = "removePoolLiquidity" \/ usershares # NaN THEN "InsufficientShares"
    ELSE "ReserveCeilingExceeded"

\* C15: an operation returns either the confirmation record or a rejection
\* that identifies its kind, so that rejections for different causes differ
\* in the returned result.
C15_TypedRejection ==
    Rejected => result = RejectionKind

\* C14: create rejects, before any call to a collaborator, a fee outside
\* [0, 0.1], a datatoken weight outside [1, 9] and a non-positive datatoken or
\* ocean amount; the two weights of every setup call sum to exactly ten.
C14_CreateValidation ==
    op = "create" =>
        /\ (\/ createFee < 0 \/ createFee > MAX_SWAP_FEE
            \/ dtWeight < MIN_WEIGHT \/ dtWeight > MAX_WEIGHT
            \/ amount <= 0 \/ limit <= 0)
               => (calls = <<>> /\ progress = <<>> /\ Rejected)
        /\ \A i \in 1..Len(calls) :
               calls[i].fn = "setup" =>
                   calls[i].dtWeight + calls[i].oceanWeight = TOTAL_WEIGHT

Answered == op = "isDispensable" /\ pc = "done" /\ status.exists

\* C19: isDispensable answers false whenever the status has active = false,
\* for every amount (zero included) and whatever the balances and isMinter.
C19_InactiveNeverDispensable ==
    (Answered /\ ~status.active) => result = "false"

C19_Witness ==
    /\ Answered /\ ~status.active /\ amount = 0
    /\ status.isMinter /\ status.maxBalance > 0 /\ status.balance > 0
    /\ result = "false"

C20_WitnessAtCeiling ==
    /\ Answered /\ result = "false" /\ status.active
    /\ userBalance = status.maxBalance
    /\ amount <= status.maxTokens /\ status.isMinter

TokensOf(toks) == {toks[i] : i \in 1..Len(toks)}

\* C21: no result depends on state left in the instance by another operation:
\* under every interleaving of concurrent calls on one instance,
\* getDTAddress(pool) answers a token of that pool or null.
C21_GetDTAddressOwnPool ==
    \A c \in Callers :
        getters[c].pc = "done" =>
            getters[c].ret \in TokensOf(getters[c].pool) \cup {NULL}

\* the quote buyDT would have got from the reserves its ceiling check saw
QuoteAtCheck ==
    PoolCalcInGivenOut(getReserve(oceanAddress), getDenormalizedWeight(oceanAddress),
                       balance, getDenormalizedWeight(dtAddr), amount, getSwapFee)

\* C22: within one buyDT the reserve read for the ceiling check and the
\* reserves read for the quote are separate reads, each of the ledger as it is
\* at its own step, so that an update by another caller between them makes
\* the check pass against one state and the quote come from another.
C22_SeparateReads ==
    [][/\ (op = "buyDT" /\ pc = "max" /\ pc' = "quote")
              => balance' = getReserve(getDTAddress)
       /\ (op = "buyDT" /\ pc = "quote" /\ pc' # "quote")
              => quote' = getOceanNeeded(amount)]_vars

C22_Witness ==
    /\ op = "buyDT" /\ pc \in {"approve", "done"} /\ amount > 0
    /\ balance # getReserve(dtAddr)
    /\ ExceedsMaxBuyQuantity(amount, getReserve(dtAddr))
    /\ quote # NaN /\ quote = getOceanNeeded(amount) /\ quote # QuoteAtCheck

\* C23: whatever ledger updates happen between the quote and the swap, the
\* approve of buyDT grants exactly maxOceanAmount and its swap carries
\* maxOceanAmount as maximum input; the swap of sellDT carries
\* oceanAmountWanted as minimum output.
C23_LimitsCarried ==
    /\ op = "buyDT" =>
           \A i \in 1..Len(calls) :
               /\ calls[i].fn = "approve" => calls[i].amt = Dec(limit)
               /\ calls[i].fn = "swapExactAmountOut" => calls[i].lim = Dec(limit)
    /\ op = "sellDT" =>
           \A i \in 1..Len(calls) :
               calls[i].fn = "swapExactAmountIn" => calls[i].lim = Dec(limit)

\* the swap is issued although the price has moved above the caller's limit
C23_Witness ==
    /\ op = "buyDT" /\ Len(calls) = 2 /\ calls[2].fn = "swapExactAmountOut"
    /\ changes > 0 /\ quote # NaN /\ quote # getOceanNeeded(amount)
    /\ GT(getOceanNeeded(amount), limit)
    /\ calls[2].lim = Dec(limit)

C24_WitnessQuoted ==
    /\ op = "getDTPrice" /\ pc = "done"
    /\ getReserve(dtAddr) > ONE_DATATOKEN /\ quote > 0

\* a pool on which the formulas are defined
ValidPool == \A t \in Tokens : getReserve(t) > 0 /\ getDenormalizedWeight(t) > 0

QuotedIn == op = "calcInGivenOut" /\ pc = "done" /\ ValidPool /\ amount < getReserve(tokenOut)
QuotedOut == op = "calcOutGivenIn" /\ pc = "done" /\ ValidPool

\* the output the quoted input buys back on the same pool
BackOut == calcOutGivenIn(tokenIn, tokenOut, quote)

OutAtFee(f) ==
    PoolCalcOutGivenIn(getReserve(tokenIn), getDenormalizedWeight(tokenIn),
                       getReserve(tokenOut), getDenormalizedWeight(tokenOut),
                       amount, f)

C27_NoInputNoOutput ==
    (QuotedOut /\ amount = 0) => (quote = 0 /\ result = "quote")

C27_Witness ==
    /\ QuotedOut /\ amount = 0 /\ quote = 0 /\ swapFee > 0
    /\ getDenormalizedWeight(tokenIn) # getDenormalizedWeight(tokenOut)

\* the ledger calls of create and its progress steps, in the order of the code
CreateCalls == <<"createPool", "approve", "approve", "setup">>
PoolCreateProgressStep ==
    <<"CreatingPool", "ApprovingDatatoken", "ApprovingOcean", "SetupPool">>

\* C28: create issues createPool, approve(datatoken), approve(ocean), setup in
\* that order and emits CreatingPool, ApprovingDatatoken, ApprovingOcean,
\* SetupPool in that order; a call is issued only after the previous one
\* succeeded, and after a failed step there is no later call or progress step.
C28_CreateOrder ==
    op = "create" =>
        /\ Len(calls) <= 4
        /\ Len(progress) = Len(calls)
        /\ \A i \in 1..Len(calls) :
               /\ calls[i].fn = CreateCalls[i]
               /\ progress[i] = PoolCreateProgressStep[i]
               /\ i < Len(calls) => calls[i].ok
        /\ Len(calls) >= 2 => calls[2].tokenIn = DT
        /\ Len(calls) >= 3 => calls[3].tokenIn = oceanAddress
        /\ (calls # <<>> /\ ~calls[Len(calls)].ok) => Rejected
        /\ (pc = "done" /\ result = "receipt") => (Len(calls) = 4 /\ calls[4].ok)

C28_Witness ==
    /\ op = "create" /\ Len(calls) = 3 /\ ~calls[3].ok /\ Rejected
    /\ progress = <<"CreatingPool", "ApprovingDatatoken", "ApprovingOcean">>

C28_WitnessCreated ==
    op = "create" /\ pc = "done" /\ result = "receipt" /\ Len(progress) = 4

\* C29: a Dispenser transaction called with estimateGas true returns the
\* estimate and sends nothing; otherwise it sends exactly one transaction,
\* after the estimation, with a gas limit of the estimate plus one.
C29_EstimateThenOneTx ==
    op \in DispenserMethods =>
        /\ Len(calls) <= 1
        /\ estimateGas = "true" =>
               (calls = <<>> /\ (pc = "done" => result = "estimate"))
        /\ calls # <<>> =>
               /\ estGas > 0
               /\ calls[1] = SendTx(op, estGas + 1, calls[1].ok)
               /\ pc = "done"
        /\ (pc = "done" /\ estimateGas # "true") =>
               (Len(calls) = 1 /\ result \in {"receipt", "throw"})

C29_Witness ==
    /\ op = "Dispenser.dispense" /\ estimateGas = "undefined" /\ pc = "done"
    /\ Len(calls) = 1 /\ calls[1].gas = estGas + 1 /\ result = "receipt"

C29_WitnessEstimate ==
    /\ op = "Dispenser.ownerWithdraw" /\ estimateGas = "true" /\ pc = "done"
    /\ calls = <<>> /\ result = "estimate" /\ estGas > 0

\* the pro-rata part of the reserve of token t for the shares asked about
Share(t) == <<amount * reserve[t], getPoolSharesTotalSupply>>

\* C30: getTokensRemovedforPoolShares returns for each of the two assets
\* poolShares / totalShareSupply x reserve; for 0 <= poolShares <= total
\* supply each amount lies between 0 and the asset's reserve, and is the
\* whole reserve when poolShares is the total supply.
C30_ProRata ==
    (op = "getTokensRemovedforPoolShares" /\ pc = "done") =>
        /\ RatEQ(tokensReceived.dtAmount, Share(DT))
        /\ RatEQ(tokensReceived.oceanAmount, Share(OCEAN))
        /\ amount <= getPoolSharesTotalSupply =>
               /\ RatLE(Dec(0), tokensReceived.dtAmount)
               /\ RatLE(tokensReceived.dtAmount, Dec(reserve[DT]))
               /\ RatLE(Dec(0), tokensReceived.oceanAmount)
               /\ RatLE(tokensReceived.oceanAmount, Dec(reserve[OCEAN]))
        /\ amount = getPoolSharesTotalSupply =>
               /\ RatEQ(tokensReceived.dtAmount, Dec(reserve[DT]))
               /\ RatEQ(tokensReceived.oceanAmount, Dec(reserve[OCEAN]))

\* the same on an instance whose oceanAddress is set
C30_ProRataConfigured ==
    oceanAddress # NULL => C30_ProRata

\* C31: when getPoolSharesByAddress(account) has returned, every registered
\* pool in which the account holds a positive share balance has exactly one
\* entry in the result, whoever registered the pool, and a pool in which the
\* account's share balance is zero has none.
EntriesOf(p) ==
    Cardinality({k \in 1..Len(sharesByAddress.result) :
                    sharesByAddress.result[k].poolAddress = p})
RegisteredPools == {registry.events[k].pool : k \in 1..Len(registry.events)}
C31_EveryHeldPoolListed ==
    (op = "getPoolSharesByAddress" /\ pc = "done"
        /\ sharesByAddress.account \in Accounts)
        => \A p \in RegisteredPools :
               LET held == registry.held[p][sharesByAddress.account]
               IN  /\ held > 0 => EntriesOf(p) = 1
                   /\ held = 0 => EntriesOf(p) = 0

\* what the code does list: one entry for every pool the account itself
\* registered, whatever its balance there, and none for any other pool
C31_OwnPoolsListed ==
    (op = "getPoolSharesByAddress" /\ pc = "done"
        /\ sharesByAddress.account \in Accounts)
        => \A p \in Pools :
               EntriesOf(p) =
                   IF \E k \in 1..Len(registry.events) :
                          registry.events[k] =
                              Registered(p, sharesByAddress.account)
                   THEN 1
                   ELSE 0

\* the part of C31 that fails through the event filter alone: a pool
\* registered by somebody else in which the account holds shares
C31_HeldPoolOfAnotherListed ==
    (op = "getPoolSharesByAddress" /\ pc = "done"
        /\ sharesByAddress.account \in Accounts)
        => \A p \in RegisteredPools :
               registry.held[p][sharesByAddress.account] > 0
                   => EntriesOf(p) = 1

\* C32: isDispensable always answers with a boolean: when it has returned and
\* no dispenser status record exists for the token, the answer is false and
\* no error has been raised.
C32_BooleanWithoutStatus ==
    (op = "isDispensable" /\ pc = "done")
        => /\ result \in {"true", "false"}
           /\ ~status.exists => result = "false"

\* with a status record the answer is a boolean, and without one the call
\* raises the error of Dispenser.status
C32_ThrowsWithoutStatus ==
    (op = "isDispensable" /\ pc = "done")
        => IF status.exists THEN result \in {"true", "false"}
                            ELSE result = "throw"

\* C33: the ceiling returned by getMaxAddLiquidity and getMaxRemoveLiquidity
\* is never negative: for every reserve >= 0 read by an add or remove
\* operation, a reserve of one to three raw units included, it is >= 0.
C33_CeilingNeverNegative ==
    (/\ op \in AddSingleOps \cup RemoveSingleOps
     /\ maxAmount # NaN /\ balance # NaN /\ balance >= 0)
        => maxAmount >= 0

\* the ceiling is negative exactly for the positive reserves below four raw
\* units, where it is -1 raw unit
C33_NegativeBelowFourUnits ==
    (/\ op \in AddSingleOps \cup RemoveSingleOps
     /\ maxAmount # NaN /\ balance # NaN /\ balance >= 0)
        => IF balance \in 1..3 THEN maxAmount = -1 ELSE maxAmount >= 0

\* C34: a holder who starts from a positive share balance and keeps calling
\* removePoolLiquidity with poolShares equal to the current balance, every
\* exit being committed on the ledger, eventually has a share balance of
\* exactly zero.
C34_EventuallyRedeemed == (shares > 0) ~> (shares = 0)

\* every such exit leaves the holder at least one raw unit of shares: a
\* positive balance stays positive
C34_DustRemains == [][shares > 0 => shares' > 0]_vars

\* and the balance settles at one raw unit
C34_SettlesAtOneUnit == <>[](shares = 1)

\* C35: when getDTAddress has returned for a pool whose token list is the
\* ocean token (this.oceanAddress) and exactly one other token, in either
\* order, the answer is that other token; for a pool all of whose tokens are
\* the ocean address, or with no token, a call that ran alone answers null.
OceanAndOneOther(pool) ==
    /\ Len(pool) = 2
    /\ \E i \in 1..2 : pool[i] = oceanAddress /\ pool[3 - i] # oceanAddress
OnlyOcean(pool) == \A i \in 1..Len(pool) : pool[i] = oceanAddress
C35_OtherTokenOrNull ==
    \A c \in Callers :
        getters[c].pc = "done" =>
            LET pool == getters[c].pool
            IN  /\ OceanAndOneOther(pool)
                       => /\ getters[c].ret \in TokensOf(pool)
                          /\ getters[c].ret # oceanAddress
                /\ (OnlyOcean(pool) /\ getters[c].alone)
                       => getters[c].ret = NULL

\* the other token answered with the ocean token first in the list, while
\* another call is in flight
C35_Witness ==
    \E c \in Callers, o \in Callers :
        /\ o # c /\ getters[o].pc = "tokens"
        /\ getters[c].pc = "done" /\ getters[c].pool = <<OCEAN, DT2>>
        /\ oceanAddress = OCEAN /\ getters[c].ret = DT2

\* the other token answered with the ocean token last in the list
C35_WitnessOceanLast ==
    \E c \in Callers :
        /\ getters[c].pc = "done" /\ getters[c].pool = <<DT, OCEAN>>
        /\ oceanAddress = OCEAN /\ getters[c].ret = DT

\* null answered by a call that ran alone on a pool holding only the ocean
\* token
C35_WitnessAlone ==
    \E c \in Callers :
        /\ getters[c].pc = "done" /\ getters[c].pool = <<OCEAN>>
        /\ oceanAddress = OCEAN /\ getters[c].alone /\ getters[c].ret = NULL

====
